---- MODULE Spec2Model ----
(***************************************************************************)
(* SingleAxisStage (src/SingleAxisStage.cpp): the stage controller that    *)
(* owns one MotorDrive handle.  Every handler runs to completion on the    *)
(* single foreground thread, so each handler is one action.  The hardware  *)
(* answers (connection validity, vendor return codes, polled status bits)  *)
(* are inputs chosen by the environment.                                   *)
(***************************************************************************)
EXTENDS Integers, Sequences, FiniteSets, TLC

(* ------------------------------------------------------------------ *)
(* Host and vendor codes                                               *)
(* ------------------------------------------------------------------ *)
\* MMDevice host codes returned at lines 138, 142, 348.
DEVICE_OK == 0
DEVICE_ERR == 1
DEVICE_DUPLICATE_PROPERTY == 4
DEVICE_UNSUPPORTED_COMMAND == 11
\* Offset added to every vendor code (lines 144, 176, 180, 196, 337, 356).
\* Declared in Errors.h; any value above the host codes behaves alike.
ERR_OFFSET == 20000

\* Polling interval handed to StartPolling (line 182) and used by Busy
\* (line 267), in milliseconds.  Declared in SingleAxisStage.h; the model
\* takes a small interval, the margin of line 267 is kept as written.
pollingIntervalMs_ == 2

\* Vendor error codes are 1..MaxErr (0 is success).
MaxErr == 2
VendorErrors == 1..MaxErr
VendorCodes == {0} \cup VendorErrors

\* The wall clock starts past any grace window measured from the default
\* (zero) MMTime, is observed every TickMs milliseconds and is followed for
\* MaxElapsed milliseconds.
TickMs == 12
MaxElapsed == 24
BootTime == pollingIntervalMs_ + 10 + 1
MaxTime == BootTime + MaxElapsed

INT_MAX == 2147483647
INT_MIN == -INT_MAX - 1

(* ------------------------------------------------------------------ *)
(* Status bits                                                         *)
(* ------------------------------------------------------------------ *)
StatusBits == {"MovingCW", "MovingCCW", "JoggingCW", "JoggingCCW",
               "Homing", "Homed", "Enabled"}

\* The polled status words the hardware produces.
StatusValues == {{}} \cup {{b} : b \in StatusBits} \cup {{"Homed", "Enabled"}}

\* Busy(): the mask of lines 271-277, without the homing bit.
MovingMaskNoHoming == {"MovingCW", "MovingCCW", "JoggingCW", "JoggingCCW"}

\* Busy(): the mask of lines 271-277.
MovingMask == {"MovingCW", "MovingCCW", "JoggingCW", "JoggingCCW", "Homing"}

\* Busy(): the grace window test without the jitter margin.
InGraceWindowNoMargin(ms) == ms <= pollingIntervalMs_

\* Busy(): the grace window test of line 267.
InGraceWindow(ms) == ms <= pollingIntervalMs_ + 10

(* ------------------------------------------------------------------ *)
(* Unit conversion                                                     *)
(* ------------------------------------------------------------------ *)
RECURSIVE Gcd(_, _)
Gcd(a, b) == IF b = 0 THEN a ELSE Gcd(b, a % b)

Abs(x) == IF x < 0 THEN -x ELSE x

\* A rational n/d in lowest terms with d > 0 (d = 0 only for n/0).
Ratio(n, d) ==
    IF d = 0 THEN [num |-> n, den |-> 0]
    ELSE LET g == Gcd(Abs(n), Abs(d))
             s == IF d < 0 THEN -1 ELSE 1
         IN  [num |-> s * (n \div g), den |-> s * (d \div g)]

\* The cast of pos * deviceUnitsPerUm_ to int without std::round.
RoundTowardZero(n, d) ==
    IF n >= 0 THEN n \div d ELSE -((-n) \div d)

\* std::round: nearest integer, halves away from zero (n/d with d > 0).
Round(n, d) ==
    IF n >= 0 THEN (2 * n + d) \div (2 * d)
    ELSE -((2 * (-n) + d) \div (2 * d))

\* clamp / clamp_int, lines 57-68.
clamp(value, lower, upper) ==
    LET m == IF upper < value THEN upper ELSE value
    IN  IF lower < m THEN m ELSE lower

clamp_int(value) == clamp(value, INT_MIN, INT_MAX)

\* The pre-initialization properties of lines 95-127: stage type and the two
\* scale factors.
Configs ==
    { [stageType |-> "Rotational", unitsPerMm |-> 1000,
       unitsPerRev |-> 49152000],
      [stageType |-> "Linear", unitsPerMm |-> 1228800,
       unitsPerRev |-> 360],
      [stageType |-> "Linear", unitsPerMm |-> 0,
       unitsPerRev |-> 360],
      [stageType |-> "Rotational", unitsPerMm |-> 1000,
       unitsPerRev |-> -360] }

\* Targets handed to SetPositionUm, as rationals.
Positions == { [num |-> 90, den |-> 1], [num |-> 1, den |-> 2],
               [num |-> 20000, den |-> 1], [num |-> -20000, den |-> 1] }

\* No position was passed or returned.
NoPos == [num |-> 0, den |-> 1]

\* Initialize(): the linear factor left in units per millimeter.
UnitsPerUmOfPerMm(c) ==
    IF c.stageType # "Linear" THEN Ratio(c.unitsPerRev, 360)
    ELSE Ratio(c.unitsPerMm, 1)

\* Initialize(), lines 157-168: the factor computed from the properties.
UnitsPerUmOf(c) ==
    IF c.stageType # "Linear" THEN Ratio(c.unitsPerRev, 360)
    ELSE Ratio(c.unitsPerMm, 1000)

\* SetPositionUm(), lines 296-297: round(pos * deviceUnitsPerUm_) clamped.
\* The product (a.num * b.num) / (a.den * b.den) is rounded as whole part
\* plus rounded fraction, and saturates as soon as it leaves the int range.
StepsOf(pos, f) ==
    LET p == Ratio(pos.num, pos.den)
        a == Ratio(p.num, f.den)
        b == Ratio(f.num, p.den)
        d == a.den * b.den
        n1 == Abs(a.num)
        n2 == Abs(b.num)
        neg == (a.num < 0) # (b.num < 0)
        q == n1 \div d
        frac == Round((n1 % d) * n2, d)
        over == \/ (q # 0 /\ n2 > INT_MAX \div q)
                \/ q * n2 > INT_MAX - frac
    IN  IF over THEN (IF neg THEN clamp_int(INT_MIN) ELSE clamp_int(INT_MAX))
        ELSE clamp_int(IF neg THEN -(q * n2 + frac) ELSE q * n2 + frac)

(* ------------------------------------------------------------------ *)
(* State                                                               *)
(* ------------------------------------------------------------------ *)
VARIABLES
    config,            \* StageType / DeviceUnitsPer* properties
    initialized,       \* initialized_
    motorDrive,        \* motorDrive_ holds a handle
    didEnable,         \* didEnable_
    homed,             \* homed_
    lastMovementStart, \* lastMovementStart_ (ms)
    deviceUnitsPerUm,  \* deviceUnitsPerUm_
    chanEnabled,       \* hardware: the channel is enabled
    now,               \* GetCurrentMMTime() (ms)
    crashed,           \* the process died on an absent handle
    lastOp,            \* the handler called last
    lastRet,           \* its return value (Busy: 1 = true, 0 = false)
    lastCmds,          \* the MotorDrive calls it made, in order
    statusRead,        \* the status word it read (GetStatusBits), else {}
    lastPos,           \* the position it was given or returned, else NoPos
    nullAccess,        \* it used motorDrive_ while no handle was held
    callSeq,           \* flips at every call
    motionCallAt,      \* time of the last SetPositionUm/Home call when Ready
    motionIssuedAt     \* time of the last accepted move or home command

ctrl == <<config, initialized, motorDrive, didEnable, homed,
          lastMovementStart, deviceUnitsPerUm>>
hw == <<chanEnabled>>
obs == <<lastOp, lastRet, lastCmds, statusRead, lastPos, nullAccess,
         callSeq>>
hist == <<motionCallAt, motionIssuedAt>>
vars == <<ctrl, hw, now, crashed, obs, hist>>

\* One call on the MotorDrive handle: its name, argument and result (a vendor
\* code, or 1/0 for a bool).
Cmd(c, a, r) == [cmd |-> c, arg |-> a, res |-> r]

Bool(b) == IF b THEN 1 ELSE 0

CmdNames(cmds) == {cmds[i].cmd : i \in 1..Len(cmds)}

\* The controller is Ready: Initialize succeeded and the handle is held.
Ready == initialized /\ motorDrive

\* The constructor, lines 72-129.
Init ==
    /\ config \in Configs
    /\ initialized = FALSE
    /\ motorDrive = FALSE
    /\ didEnable = FALSE
    /\ homed = FALSE
    /\ lastMovementStart = 0
    /\ deviceUnitsPerUm = [num |-> 0, den |-> 1]
    /\ chanEnabled \in BOOLEAN
    /\ now = BootTime
    /\ crashed = FALSE
    /\ lastOp = "new"
    /\ lastRet = DEVICE_OK
    /\ lastCmds = <<>>
    /\ statusRead = {}
    /\ lastPos = NoPos
    /\ nullAccess = FALSE
    /\ callSeq = 0
    /\ motionCallAt = 0
    /\ motionIssuedAt = 0

\* What a call leaves in the observation variables.
Outcome(op, ret, cmds, status, pos, null) ==
    /\ lastOp' = op
    /\ lastRet' = ret
    /\ lastCmds' = cmds
    /\ statusRead' = status
    /\ lastPos' = pos
    /\ nullAccess' = null
    /\ callSeq' = 1 - callSeq

Observed(op, ret, cmds, status, null) ==
    Outcome(op, ret, cmds, status, NoPos, null)

Returns(op, ret, cmds, null) == Observed(op, ret, cmds, {}, null)

\* A call on an absent handle may kill the process; nothing else changes.
Crash(op, cmds) ==
    /\ crashed' = TRUE
    /\ Returns(op, DEVICE_ERR, cmds, TRUE)
    /\ UNCHANGED <<ctrl, hw, now, hist>>

(* ------------------------------------------------------------------ *)
(* Initialize(), lines 136-209                                         *)
(* ------------------------------------------------------------------ *)
\* Initialize(): the early return of line 137 left out.
AlreadyInitializedIgnored == FALSE

\* Initialize(): the test of line 137.
AlreadyInitialized == initialized

\* Initialize(): the connection error returned without the offset.
InvalidConnectionReturnRaw(e) == e

\* Initialize(), line 144: the return value for connection error e.
InvalidConnectionReturn(e) == ERR_OFFSET + e

\* Initialize(): a request's return code never tested.
RequestFailedIgnored(err) == FALSE

\* Initialize(), lines 175 and 179: the request was rejected.
RequestFailed(err) == err # 0

\* Initialize(): a StartPolling failure treated as an error.
PollingFailureFatal(ok) == ~ok

\* Initialize(), lines 182-185: a StartPolling failure is logged and
\* Initialize goes on.
PollingFailureReturns(ok) == FALSE

\* The commands of lines 174-198 and their result.  rp, rs, en are the vendor
\* codes of RequestPosition, RequestStatusBits and SetChannelEnabled(true),
\* pollOk the result of StartPolling, prop that of CreateFloatProperty (the
\* host call of line 202, logged with them).
InitializeSetup(rp, rs, pollOk, en, prop) ==
    LET c1 == <<Cmd("Connect", 0, 0), Cmd("RequestPosition", 0, rp)>>
        c2 == Append(c1, Cmd("RequestStatusBits", 0, rs))
        c3 == c2 \o <<Cmd("StartPolling", pollingIntervalMs_, Bool(pollOk)),
                      Cmd("IsChannelEnabled", 0, Bool(chanEnabled))>>
        c4 == IF chanEnabled THEN c3
              ELSE Append(c3, Cmd("SetChannelEnabled", 1, en))
        c5 == Append(c4, Cmd("CreateFloatProperty", 0, prop))
        fail(r, cs, de, ce) == [ret |-> r, cmds |-> cs, initialized |-> FALSE,
                                didEnable |-> de, chanEnabled |-> ce]
    IN  IF RequestFailed(rp)
        THEN fail(ERR_OFFSET + rp, c1, didEnable, chanEnabled)
        ELSE IF RequestFailed(rs)
        THEN fail(ERR_OFFSET + rs, c2, didEnable, chanEnabled)
        ELSE IF PollingFailureReturns(pollOk)
        THEN fail(DEVICE_ERR,
                  Append(c2, Cmd("StartPolling", pollingIntervalMs_, 0)),
                  didEnable, chanEnabled)
        ELSE IF ~chanEnabled /\ en # 0
             THEN fail(ERR_OFFSET + en, c4, didEnable, chanEnabled)
        ELSE IF prop # DEVICE_OK
             THEN fail(prop, c5, didEnable \/ ~chanEnabled, TRUE)
        ELSE [ret |-> DEVICE_OK, cmds |-> c5, initialized |-> TRUE,
              didEnable |-> didEnable \/ ~chanEnabled, chanEnabled |-> TRUE]

\* The hardware answers Initialize can meet, one tuple <<rp, rs, pollOk, en,
\* prop>> per distinguishable course of lines 174-204.
InitializeAnswers ==
    {<<rp, 0, TRUE, 0, DEVICE_OK>> : rp \in VendorErrors}
    \cup {<<0, rs, TRUE, 0, DEVICE_OK>> : rs \in VendorErrors}
    \cup {<<0, 0, p, en, DEVICE_OK>> : p \in BOOLEAN, en \in VendorCodes}
    \cup {<<0, 0, TRUE, 0, DEVICE_DUPLICATE_PROPERTY>>}

Initialize ==
    /\ ~crashed
    /\ \/ /\ AlreadyInitialized
          /\ Returns("Initialize", DEVICE_OK, <<>>, FALSE)
          /\ UNCHANGED <<ctrl, hw>>
       \/ /\ ~AlreadyInitialized
          /\ \/ \* Connect() returned no drive, lines 141-142
                /\ Returns("Initialize", DEVICE_ERR,
                           <<Cmd("Connect", 0, -1)>>, FALSE)
                /\ UNCHANGED <<ctrl, hw>>
             \/ \* the connection is invalid, lines 143-145
                \E e \in VendorErrors :
                   /\ Returns("Initialize", InvalidConnectionReturn(e),
                              <<Cmd("Connect", 0, e)>>, FALSE)
                   /\ UNCHANGED <<ctrl, hw>>
             \/ \* the handle is kept, line 146, and set up
                \E a \in InitializeAnswers :
                   LET r == InitializeSetup(a[1], a[2], a[3], a[4], a[5])
                   IN  /\ motorDrive' = TRUE
                       /\ deviceUnitsPerUm' = UnitsPerUmOf(config)
                       /\ initialized' = r.initialized
                       /\ didEnable' = r.didEnable
                       /\ chanEnabled' = r.chanEnabled
                       /\ Returns("Initialize", r.ret, r.cmds, FALSE)
                       /\ UNCHANGED <<config, homed, lastMovementStart>>
    /\ UNCHANGED <<now, crashed, hist>>

(* ------------------------------------------------------------------ *)
(* Shutdown(), lines 213-223                                           *)
(* ------------------------------------------------------------------ *)
Shutdown ==
    /\ ~crashed
    /\ LET null == didEnable /\ ~motorDrive
           stop == IF motorDrive THEN <<Cmd("StopPolling", 0, 0)>> ELSE <<>>
       IN  \/ /\ null
              /\ Crash("Shutdown", <<>>)
           \/ \E disErr \in VendorCodes :
                 LET dis == IF didEnable /\ motorDrive
                            THEN <<Cmd("SetChannelEnabled", 0, disErr)>>
                            ELSE <<>>
                 IN  /\ motorDrive' = FALSE
                     /\ chanEnabled' =
                            IF didEnable /\ motorDrive /\ disErr = 0
                            THEN FALSE ELSE chanEnabled
                     /\ Returns("Shutdown", DEVICE_OK, dis \o stop, null)
                     /\ UNCHANGED <<config, initialized, didEnable, homed,
                                    lastMovementStart, deviceUnitsPerUm,
                                    now, crashed, hist>>

(* ------------------------------------------------------------------ *)
(* Busy(), lines 255-278                                               *)
(* ------------------------------------------------------------------ *)
Busy ==
    /\ ~crashed
    /\ LET msSinceMovementStart == now - lastMovementStart
       IN  IF InGraceWindow(msSinceMovementStart)
           THEN /\ Returns("Busy", 1, <<>>, FALSE)
                /\ UNCHANGED crashed
           ELSE IF motorDrive
           THEN \E status \in StatusValues :
                   /\ Observed("Busy", Bool((status \cap MovingMask) # {}),
                               <<Cmd("GetStatusBits", 0, 0)>>, status, FALSE)
                   /\ UNCHANGED crashed
           ELSE \/ /\ crashed' = TRUE
                   /\ Returns("Busy", 0, <<>>, TRUE)
                \/ \E garbage \in BOOLEAN :
                      /\ Returns("Busy", Bool(garbage), <<>>, TRUE)
                      /\ UNCHANGED crashed
    /\ UNCHANGED <<ctrl, hw, now, hist>>

(* ------------------------------------------------------------------ *)
(* SetPositionUm() and SetPositionSteps(), lines 294-299 and 330-342   *)
(* ------------------------------------------------------------------ *)
\* SetPositionSteps(): the timestamp taken whatever MoveToPosition returned.
MoveStampsAlways(err) == TRUE

\* SetPositionSteps(), lines 336-339: the timestamp is taken on success only.
MoveStamps(err) == err = 0

\* SetPositionSteps(), lines 336-341: the return value for vendor code err.
MoveReturn(err) == IF err # 0 THEN ERR_OFFSET + err ELSE DEVICE_OK

\* SetPositionUm(pos) called by handler op, which returns ret; err is the
\* answer of MoveToPosition.
SetPositionUmBody(op, pos, err, ret) ==
    LET steps == StepsOf(pos, deviceUnitsPerUm)
        iSteps == clamp_int(steps)
    IN  \/ /\ ~motorDrive
           /\ Crash(op, <<>>)
        \/ /\ lastMovementStart' =
                  IF MoveStamps(err) THEN now ELSE lastMovementStart
           /\ Outcome(op, ret,
                      IF motorDrive
                      THEN <<Cmd("MoveToPosition", iSteps, err)>>
                      ELSE <<>>,
                      {}, pos, ~motorDrive)
           /\ motionCallAt' = IF Ready THEN now ELSE motionCallAt
           /\ motionIssuedAt' = IF motorDrive /\ err = 0 THEN now
                                ELSE motionIssuedAt
           /\ UNCHANGED <<config, initialized, motorDrive, didEnable,
                          homed, deviceUnitsPerUm, hw, now, crashed>>

SetPositionUm ==
    /\ ~crashed
    /\ \E pos \in Positions, err \in VendorCodes :
          SetPositionUmBody("SetPositionUm", pos, err, MoveReturn(err))

(* ------------------------------------------------------------------ *)
(* GetPositionUm() and GetPositionSteps(), lines 281-291 and 322-327   *)
(* ------------------------------------------------------------------ *)
\* The position counters the hardware reports.
Counters == {0, 12288000}

\* GetPositionUm(), line 288: steps / deviceUnitsPerUm_ (den = 0 stands for
\* the infinity or NaN of a division by zero).
PosOf(steps, f) == Ratio(steps * f.den, f.num)

\* GetPositionUm() called by handler op.
GetPositionUmBody(op) ==
    \/ /\ ~motorDrive
       /\ Crash(op, <<>>)
    \/ \E counter \in Counters :
          /\ Outcome(op, DEVICE_OK,
                     IF motorDrive
                     THEN <<Cmd("GetPositionCounter", 0, counter)>>
                     ELSE <<>>,
                     {}, PosOf(counter, deviceUnitsPerUm), ~motorDrive)
          /\ UNCHANGED <<ctrl, hw, now, crashed, hist>>

GetPositionUm ==
    /\ ~crashed
    /\ GetPositionUmBody("GetPositionUm")

(* ------------------------------------------------------------------ *)
(* OnPositionChange(), lines 301-319                                   *)
(* ------------------------------------------------------------------ *)
\* The "Position Degrees" property exists once line 202 succeeded, which is
\* when initialized_ is set.
PropertyRegistered == initialized

\* Line 318: the handler's return value, whatever SetPositionUm returned.
AfterSetReturn(ret) == DEVICE_OK

OnPositionChange ==
    /\ ~crashed
    /\ PropertyRegistered
    /\ \/ \* MM::BeforeGet, lines 303-309
          GetPositionUmBody("OnPositionChange.BeforeGet")
       \/ \* MM::AfterSet, lines 310-316
          \E pos \in Positions, err \in VendorCodes :
             SetPositionUmBody("OnPositionChange.AfterSet", pos, err,
                               AfterSetReturn(MoveReturn(err)))

(* ------------------------------------------------------------------ *)
(* Home(), lines 346-363                                               *)
(* ------------------------------------------------------------------ *)
\* Home(): homed_ set and the timestamp taken before the error test.
HomeOutcomeEager(canHome, err) ==
    LET q == <<Cmd("CanHome", 0, Bool(canHome))>>
    IN  IF ~canHome
        THEN [ret |-> DEVICE_UNSUPPORTED_COMMAND, cmds |-> q,
              homed |-> homed, stamp |-> FALSE]
        ELSE IF homed
        THEN [ret |-> DEVICE_OK, cmds |-> q, homed |-> homed,
              stamp |-> FALSE]
        ELSE [ret |-> IF err # 0 THEN ERR_OFFSET + err ELSE DEVICE_OK,
              cmds |-> Append(q, Cmd("Home", 0, err)),
              homed |-> TRUE, stamp |-> TRUE]

\* Home(), lines 347-362, for the answers canHome of CanHome() and err of
\* Home(): the return value, the calls made, homed_ afterwards and whether
\* lastMovementStart_ is set.
HomeOutcome(canHome, err) ==
    LET q == <<Cmd("CanHome", 0, Bool(canHome))>>
    IN  IF ~canHome
        THEN [ret |-> DEVICE_UNSUPPORTED_COMMAND, cmds |-> q,
              homed |-> homed, stamp |-> FALSE]
        ELSE IF homed
        THEN [ret |-> DEVICE_OK, cmds |-> q, homed |-> homed,
              stamp |-> FALSE]
        ELSE IF err # 0
        THEN [ret |-> ERR_OFFSET + err,
              cmds |-> Append(q, Cmd("Home", 0, err)),
              homed |-> homed, stamp |-> FALSE]
        ELSE [ret |-> DEVICE_OK, cmds |-> Append(q, Cmd("Home", 0, 0)),
              homed |-> TRUE, stamp |-> TRUE]

Home ==
    /\ ~crashed
    /\ \/ /\ ~motorDrive
          /\ Crash("Home", <<>>)
       \/ \E canHome \in BOOLEAN, err \in VendorCodes :
             LET r == HomeOutcome(canHome, err)
             IN  /\ homed' = r.homed
                 /\ lastMovementStart' =
                        IF r.stamp THEN now ELSE lastMovementStart
                 /\ Returns("Home", r.ret,
                            IF motorDrive THEN r.cmds ELSE <<>>, ~motorDrive)
                 /\ motionCallAt' = IF Ready THEN now ELSE motionCallAt
                 /\ motionIssuedAt' =
                        IF motorDrive /\ "Home" \in CmdNames(r.cmds)
                           /\ r.cmds[Len(r.cmds)].res = 0
                        THEN now ELSE motionIssuedAt
                 /\ UNCHANGED <<config, initialized, motorDrive, didEnable,
                                deviceUnitsPerUm, hw, now, crashed>>

(* ------------------------------------------------------------------ *)
(* Environment                                                         *)
(* ------------------------------------------------------------------ *)
\* Wall-clock time passes.
Tick ==
    /\ ~crashed
    /\ now < MaxTime
    /\ now' = now + TickMs
    /\ UNCHANGED <<ctrl, hw, crashed, obs, hist>>

Next ==
    \/ Initialize
    \/ Shutdown
    \/ Busy
    \/ SetPositionUm
    \/ GetPositionUm
    \/ OnPositionChange
    \/ Home
    \/ Tick

Spec == Init /\ [][Next]_vars

(* ------------------------------------------------------------------ *)
(* Properties                                                          *)
(* ------------------------------------------------------------------ *)
\* The step is a call of handler op.
Called(op) == lastOp' = op /\ callSeq' # callSeq

\* The last call was an Initialize that found its connection invalid.
ConnectFailedLast ==
    /\ lastOp = "Initialize"
    /\ Len(lastCmds) = 1
    /\ lastCmds[1].cmd = "Connect"
    /\ lastCmds[1].res \in VendorErrors

GraceMs == pollingIntervalMs_ + 10

\* C1: whenever Initialize() returns a failure code, no handle is held on
\* return and initialized is false.
C1_FailedInitializeHoldsNoHandle ==
    (lastOp = "Initialize" /\ lastRet # DEVICE_OK)
        => (~motorDrive /\ ~initialized)

\* C2: Shutdown() of a Ready controller leaves it Uninitialized (initialized
\* false, no handle), and an Initialize() of an Uninitialized controller
\* opens a connection again and, when it succeeds, ends Ready.
C2_ShutdownMakesReusable ==
    [][ /\ (Ready /\ Called("Shutdown"))
            => (~initialized' /\ ~motorDrive')
        /\ (~Ready /\ Called("Initialize"))
            => /\ "Connect" \in CmdNames(lastCmds')
               /\ (lastRet' = DEVICE_OK => Ready') ]_vars

\* C3: Shutdown() called while no handle is held issues no hardware command,
\* never uses the absent handle and returns success.
C3_ShutdownWithoutHandleIsNoOp ==
    [][ (~motorDrive /\ Called("Shutdown"))
            => /\ lastCmds' = <<>>
               /\ ~nullAccess'
               /\ ~crashed'
               /\ lastRet' = DEVICE_OK ]_vars

\* C4: Initialize() on a Ready controller returns success, issues no
\* hardware command and changes nothing.
C4_InitializeWhenReadyIsNoOp ==
    [][ (Ready /\ Called("Initialize"))
            => /\ lastRet' = DEVICE_OK
               /\ lastCmds' = <<>>
               /\ UNCHANGED <<ctrl, hw>> ]_vars

C4_Witness ==
    lastOp = "Initialize" /\ lastCmds = <<>> /\ lastRet = DEVICE_OK /\ Ready

\* C5: when the connection opened by Initialize() is invalid with error e,
\* Initialize() returns ERR_OFFSET + e, issues nothing beyond the connection
\* attempt, keeps no handle for it (an unset handle stays unset) and leaves
\* initialized false.
C5_InvalidConnection ==
    [][ \A e \in VendorErrors :
          (/\ Called("Initialize")
           /\ Len(lastCmds') >= 1
           /\ lastCmds'[1] = Cmd("Connect", 0, e))
            => /\ lastRet' = ERR_OFFSET + e
               /\ Len(lastCmds') = 1
               /\ motorDrive' = motorDrive
               /\ ~initialized' ]_vars

C5_Witness ==
    /\ ConnectFailedLast
    /\ lastRet = ERR_OFFSET + lastCmds[1].res
    /\ ~motorDrive
    /\ ~initialized

\* C6: after an Initialize() that failed on connection open, Shutdown() is a
\* no-op returning success that leaves the controller Uninitialized, and an
\* Initialize() of an Uninitialized controller attempts the connection again
\* and, when it succeeds, ends Ready.
C6_ShutdownAfterConnectFailure ==
    [][ /\ (ConnectFailedLast /\ Called("Shutdown"))
            => /\ lastCmds' = <<>>
               /\ lastRet' = DEVICE_OK
               /\ ~nullAccess'
               /\ ~crashed'
               /\ ~initialized'
        /\ (~initialized /\ Called("Initialize"))
            => /\ "Connect" \in CmdNames(lastCmds')
               /\ (lastRet' = DEVICE_OK => Ready') ]_vars

\* C7 (as claimed): every Busy() made within the grace window of any
\* SetPositionUm or Home call on a Ready controller returns true.
C7_BusyAfterEveryMotionCall ==
    [][ (/\ Called("Busy")
         /\ motionCallAt > 0
         /\ now - motionCallAt <= GraceMs)
            => lastRet' = 1 ]_vars

\* C7 (amended): every Busy() made within the grace window of a
\* SetPositionUm or Home call whose hardware command was issued and accepted
\* returns true, without reading the status bits.
C7_BusyAfterAcceptedMotion ==
    [][ (/\ Called("Busy")
         /\ motionIssuedAt > 0
         /\ now - motionIssuedAt <= GraceMs)
            => (lastRet' = 1 /\ lastCmds' = <<>>) ]_vars

C7_Witness ==
    /\ lastOp = "Busy"
    /\ lastRet = 1
    /\ lastCmds = <<>>
    /\ motionIssuedAt > 0
    /\ now > motionIssuedAt
    /\ now - motionIssuedAt <= GraceMs

\* C8: on a Ready controller, past the grace window, Busy() reads the status
\* word and returns true exactly when one of moving-CW, moving-CCW,
\* jogging-CW, jogging-CCW, homing is set in it.
C8_BusyFollowsStatusBits ==
    [][ (/\ Ready
         /\ Called("Busy")
         /\ now - lastMovementStart > GraceMs)
            => /\ lastCmds' = <<Cmd("GetStatusBits", 0, 0)>>
               /\ lastRet' \in {0, 1}
               /\ lastRet' = 1 <=>
                    \E b \in {"MovingCW", "MovingCCW", "JoggingCW",
                              "JoggingCCW", "Homing"} : b \in statusRead'
       ]_vars

C8_Witness ==
    /\ Ready
    /\ lastOp = "Busy"
    /\ now - lastMovementStart > GraceMs
    /\ statusRead = {"Homing"}
    /\ lastRet = 1

\* C9: a Home() called on the Ready controller after a Home() that succeeded
\* (homed is true) returns success and issues no home command.
C9_HomeOnceHomedIsNoOp ==
    [][ (/\ Ready
         /\ homed
         /\ lastOp = "Home" /\ lastRet = DEVICE_OK /\ ~nullAccess
         /\ Called("Home"))
            => /\ lastRet' = DEVICE_OK
               /\ "Home" \notin CmdNames(lastCmds') ]_vars

\* C10: on a controller that is not homed, Home() with canHome() false
\* returns the unsupported-command error without a home command, and Home()
\* whose home command is rejected with code e returns ERR_OFFSET + e; in
\* both cases homed stays false and lastMovementStart_ is unchanged.
C10_HomeFailures ==
    [][ (motorDrive /\ ~homed /\ Called("Home"))
            => /\ lastCmds'[1] = Cmd("CanHome", 0, 0)
                    => /\ lastRet' = DEVICE_UNSUPPORTED_COMMAND
                       /\ Len(lastCmds') = 1
                       /\ ~homed'
                       /\ lastMovementStart' = lastMovementStart
               /\ \A e \in VendorErrors :
                    (Len(lastCmds') = 2 /\ lastCmds'[2] = Cmd("Home", 0, e))
                    => /\ lastRet' = ERR_OFFSET + e
                       /\ ~homed'
                       /\ lastMovementStart' = lastMovementStart ]_vars

C10_Witness ==
    /\ lastOp = "Home"
    /\ motorDrive
    /\ ~homed
    /\ Len(lastCmds) = 2
    /\ lastCmds[2].cmd = "Home"
    /\ lastCmds[2].res \in VendorErrors
    /\ lastRet = ERR_OFFSET + lastCmds[2].res

(* ------------------------------------------------------------------ *)
(* Channel enabling, position conversion, scale factors                *)
(* ------------------------------------------------------------------ *)
\* The command names of a log.
NamesOf(cmds) == {cmds[i].cmd : i \in 1..Len(cmds)}

\* The log holds an enable of the channel that the drive accepted.
EnabledBy(cmds) ==
    \E i \in 1..Len(cmds) : cmds[i] = Cmd("SetChannelEnabled", 1, 0)

\* The log holds a disable of the channel.
DisableIn(cmds) ==
    \E i \in 1..Len(cmds) :
        cmds[i].cmd = "SetChannelEnabled" /\ cmds[i].arg = 0

\* C11: Shutdown disables the channel only if the Initialize that opened the
\* session enabled it itself: a Shutdown that directly follows the Initialize
\* which connected the handle it closes issues the disable exactly when that
\* Initialize issued an accepted enable, and a Shutdown that directly follows
\* a Shutdown attempts no disable at all.
C11_DisableOnlyAfterOwnEnable ==
    [][ /\ (lastOp = "Initialize" /\ Len(lastCmds) >= 2 /\ motorDrive
            /\ Called("Shutdown"))
           => (DisableIn(lastCmds') <=> EnabledBy(lastCmds))
        /\ (lastOp = "Shutdown" /\ ~motorDrive /\ Called("Shutdown"))
           => (~DisableIn(lastCmds') /\ ~nullAccess' /\ ~crashed') ]_vars

\* The factor section 4.1 states for a configuration: device units per 360
\* degrees for a rotational stage, per 1000 micrometers for a linear one.
StatedFactor(c) ==
    IF c.stageType = "Rotational" THEN Ratio(c.unitsPerRev, 360)
    ELSE Ratio(c.unitsPerMm, 1000)

\* t is the product of position p and factor f rounded to the nearest integer,
\* halves away from zero, and saturated at the 32-bit limits.
IsRoundedProduct(t, p, f) ==
    LET d == p.den * f.den
        n == p.num * f.num
    IN  IF f.num = 0 \/ Abs(p.num) <= (INT_MAX \div 4) \div Abs(f.num)
        THEN /\ 2 * Abs(t * d - n) <= d
             /\ (2 * Abs(t * d - n) = d) => Abs(t * d) > Abs(n)
        ELSE /\ Abs(p.num) \div d > INT_MAX \div Abs(f.num)
             /\ t = IF (p.num < 0) # (f.num < 0) THEN INT_MIN ELSE INT_MAX

\* C12: on a Ready controller SetPositionUm commands the target
\* round(position * factor) clamped to the 32-bit signed range, the factor
\* being that of the configured stage type.
C12_TargetIsRoundedClampedProduct ==
    [][ (Ready /\ Called("SetPositionUm"))
        => /\ Len(lastCmds') = 1
           /\ lastCmds'[1].cmd = "MoveToPosition"
           /\ lastCmds'[1].arg \in INT_MIN..INT_MAX
           /\ IsRoundedProduct(lastCmds'[1].arg, lastPos',
                               StatedFactor(config)) ]_vars

\* C12 witness: a move of a rotational stage whose product exceeds the 32-bit
\* range was commanded at the saturated target.
C12_Witness ==
    /\ Ready /\ lastOp = "SetPositionUm" /\ ~nullAccess
    /\ config.stageType = "Rotational"
    /\ lastPos = [num |-> -20000, den |-> 1]
    /\ lastCmds = <<Cmd("MoveToPosition", INT_MIN, 0)>>

\* The linear configuration of the worked example of section 8.
IsExampleLinear ==
    config = [stageType |-> "Linear", unitsPerMm |-> 1228800,
              unitsPerRev |-> 360]

\* The half unit the worked example moves to.
HalfUnit == [num |-> 1, den |-> 2]

\* C13 as stated: a linear stage of 1228800 units per millimeter moved to 0.5
\* is commanded to target 614400.
C13_HalfUnitIs614400 ==
    [][ (Ready /\ IsExampleLinear /\ Called("SetPositionUm")
         /\ lastPos' = HalfUnit)
        => lastCmds'[1].arg = 614400 ]_vars

\* C13 amended: a linear stage of 1228800 units per millimeter moved to 0.5
\* position units (micrometers) is commanded to target 614, the rounding of
\* 0.5 * 1228800 / 1000.
C13_HalfUnitIs614 ==
    [][ (Ready /\ IsExampleLinear /\ Called("SetPositionUm")
         /\ lastPos' = HalfUnit)
        => lastCmds'[1] \in {Cmd("MoveToPosition", 614, e) : e \in VendorCodes}
    ]_vars

\* C13 witness: the move of the example was issued and accepted.
C13_Witness ==
    /\ Ready /\ IsExampleLinear /\ lastOp = "SetPositionUm" /\ ~nullAccess
    /\ lastPos = HalfUnit
    /\ lastCmds = <<Cmd("MoveToPosition", 614, 0)>>
    /\ lastRet = DEVICE_OK

\* C14: the two scale factors are positive: a controller that Initialize made
\* initialized has a positive configured factor for its stage type.
C14_InitializedHasPositiveFactor ==
    initialized
    => /\ config.unitsPerMm > 0
       /\ config.unitsPerRev > 0
       /\ deviceUnitsPerUm.num > 0

(* ------------------------------------------------------------------ *)
(* Order of the commands of Initialize                                 *)
(* ------------------------------------------------------------------ *)
\* The positions of command name in a log.
IndexOf(cmds, name) == {i \in 1..Len(cmds) : cmds[i].cmd = name}

\* Every command named a comes before every command named b, and b is not
\* issued without a.
Precedes(cmds, a, b) ==
    \A j \in IndexOf(cmds, b) : \E i \in IndexOf(cmds, a) : i < j

\* C15: an Initialize that connected issues requestPosition, then
\* requestStatusBits, then startPolling, then (if at all) the enable; a
\* request rejected with code e ends the call with ERR_OFFSET + e before any
\* later command is issued.
C15_RequestsBeforePollingAndEnable ==
    [][ (Called("Initialize") /\ Len(lastCmds') >= 2)
        => LET cmds == lastCmds'
           IN  /\ cmds[2].cmd = "RequestPosition"
               /\ Precedes(cmds, "RequestPosition", "RequestStatusBits")
               /\ Precedes(cmds, "RequestStatusBits", "StartPolling")
               /\ Precedes(cmds, "StartPolling", "SetChannelEnabled")
               /\ \A i \in 2..Len(cmds) :
                    (cmds[i].cmd \in {"RequestPosition", "RequestStatusBits"}
                     /\ cmds[i].res # 0)
                    => /\ Len(cmds) = i
                       /\ lastRet' = ERR_OFFSET + cmds[i].res
                       /\ ~initialized'
               /\ (cmds[2].res = 0) => (Len(cmds) >= 3
                                        /\ cmds[3].cmd = "RequestStatusBits")
               /\ (cmds[2].res = 0 /\ cmds[3].res = 0)
                  => (Len(cmds) >= 4 /\ cmds[4].cmd = "StartPolling") ]_vars

\* C15 witness: requestStatusBits was rejected after an accepted
\* requestPosition, and the call stopped there.
C15_Witness ==
    /\ lastOp = "Initialize" /\ Len(lastCmds) = 3
    /\ lastCmds[2] = Cmd("RequestPosition", 0, 0)
    /\ lastCmds[3].cmd = "RequestStatusBits"
    /\ lastCmds[3].res \in VendorErrors
    /\ lastRet = ERR_OFFSET + lastCmds[3].res

\* startPolling failed in the log and every other command of the log that can
\* fail was accepted.
OnlyPollingFailed(cmds) ==
    /\ \E i \in IndexOf(cmds, "StartPolling") : cmds[i].res = Bool(FALSE)
    /\ \A i \in 1..Len(cmds) :
         cmds[i].cmd \in {"Connect", "RequestPosition", "RequestStatusBits",
                          "SetChannelEnabled", "CreateFloatProperty"}
         => cmds[i].res = 0

\* C16: an Initialize in which only startPolling failed goes on to the enable
\* step, returns success, and leaves the controller initialized with the
\* handle held.
C16_PollingFailureIsNotFatal ==
    [][ (Called("Initialize") /\ OnlyPollingFailed(lastCmds'))
        => /\ "IsChannelEnabled" \in NamesOf(lastCmds')
           /\ "CreateFloatProperty" \in NamesOf(lastCmds')
           /\ (~chanEnabled => EnabledBy(lastCmds'))
           /\ lastRet' = DEVICE_OK
           /\ initialized' /\ motorDrive' ]_vars

\* C16 witness: Initialize succeeded after startPolling failed and the channel
\* had to be enabled.
C16_Witness ==
    /\ lastOp = "Initialize" /\ OnlyPollingFailed(lastCmds)
    /\ EnabledBy(lastCmds)
    /\ lastRet = DEVICE_OK /\ Ready

(* ------------------------------------------------------------------ *)
(* Moves                                                               *)
(* ------------------------------------------------------------------ *)
\* C17: a SetPositionUm on a Ready controller issues exactly one
\* moveToPosition; rejected with code e it returns ERR_OFFSET + e and leaves
\* lastMovementStart alone, accepted it returns success and sets
\* lastMovementStart to the current time.
C17_OneMovePerCall ==
    [][ (Ready /\ Called("SetPositionUm"))
        => /\ Len(lastCmds') = 1
           /\ lastCmds'[1].cmd = "MoveToPosition"
           /\ IF lastCmds'[1].res # 0
              THEN /\ lastRet' = ERR_OFFSET + lastCmds'[1].res
                   /\ lastMovementStart' = lastMovementStart
              ELSE /\ lastRet' = DEVICE_OK
                   /\ lastMovementStart' = now ]_vars

\* C17 witness: a move was rejected while an earlier accepted move was still
\* inside its grace window, and the earlier timestamp stands.
C17_Witness ==
    /\ Ready /\ lastOp = "SetPositionUm" /\ ~nullAccess
    /\ Len(lastCmds) = 1 /\ lastCmds[1].res \in VendorErrors
    /\ lastRet = ERR_OFFSET + lastCmds[1].res
    /\ lastMovementStart > 0 /\ lastMovementStart < now
    /\ now - lastMovementStart <= GraceMs

\* C18: the set handler of the position property returns what its
\* SetPositionUm call returned: ERR_OFFSET + e when moveToPosition is rejected
\* with code e, and success after the same single move otherwise.
C18_SetHandlerForwardsFailure ==
    [][ (Ready /\ Called("OnPositionChange.AfterSet"))
        => /\ Len(lastCmds') = 1
           /\ lastCmds'[1].cmd = "MoveToPosition"
           /\ lastCmds'[1].arg = StepsOf(lastPos', deviceUnitsPerUm)
           /\ lastRet' = IF lastCmds'[1].res # 0
                         THEN ERR_OFFSET + lastCmds'[1].res
                         ELSE DEVICE_OK ]_vars

(* ------------------------------------------------------------------ *)
(* homed and the handle                                                *)
(* ------------------------------------------------------------------ *)
\* C19: homed never goes back to false, and a step that does not dereference
\* an absent handle sets it only as a Home call whose home command the drive
\* accepted.
C19_HomedIsMonotonic ==
    [][ /\ homed => homed'
        /\ (~homed /\ homed' /\ ~nullAccess')
           => /\ Called("Home")
              /\ lastRet' = DEVICE_OK
              /\ Len(lastCmds') >= 1
              /\ lastCmds'[Len(lastCmds')] = Cmd("Home", 0, 0) ]_vars

\* C19 witness: homed, set by an accepted Home, outlived a rejected move and
\* the Shutdown that released the handle.
C19_Witness ==
    /\ homed /\ lastOp = "Shutdown" /\ ~motorDrive
    /\ ~nullAccess /\ ~crashed
    /\ lastMovementStart > 0

\* The operations that use the handle without testing it.
HandleUsers ==
    {"Busy", "GetPositionUm", "SetPositionUm", "Home"}

\* C20: an initialized controller holds a handle, and no operation called on
\* an initialized controller has dereferenced an absent handle.
C20_InitializedHoldsHandle ==
    /\ initialized => motorDrive
    /\ (initialized /\ lastOp \in HandleUsers) => (~nullAccess /\ ~crashed)
====
